---- MODULE Spec2Model ----
(***************************************************************************)
(* The file-based request/response channel of mcp_server.py: send_command  *)
(* run by worker threads (call_tool hands each call to asyncio.to_thread), *)
(* the channel directory with command.json, response.json and the temp     *)
(* files of mkstemp, and the host-side listener as the environment that    *)
(* reads command.json and writes response.json.                            *)
(*                                                                         *)
(* A file's text is a sequence of string tokens.  json.dump of a dict      *)
(* gives "{", key, value, ..., "}"; a truncated file is a strict prefix.   *)
(* A Python dict is a function from key strings to value strings; None,    *)
(* True and False are the JSON tokens "null", "true" and "false".          *)
(*                                                                         *)
(* Time is each call's reading of time.monotonic(), in ticks since the     *)
(* call entered its poll loop.  Only time.sleep lets it pass: a sleep      *)
(* lasts POLL_INTERVAL or longer (time.sleep may oversleep).               *)
(***************************************************************************)
EXTENDS Integers, Sequences, FiniteSets, TLC

VARIABLES
    ipcDir,     \* IPC_DIR: "absent", "open" (exists, mode unrestricted), "private" (0700)
    fs,         \* the files of IPC_DIR: a function from the existing paths to their text
    nextId,     \* the number of uuid4() values drawn so far, plus one
    pc,         \* pc[t]: where worker thread t is in send_command
    cmd,        \* cmd[t]: the envelope {"id", "action", "params"} of t's call
    tmp_path,   \* tmp_path[t]: the path mkstemp gave t's call
    content,    \* content[t]: the text the last read_text of t's call returned
    elapsed,    \* elapsed[t]: time.monotonic() - start as of t's last clock reading
    ret,        \* ret[t]: what the call returned or raised
    hostCmd,    \* the id of the last command the listener read
    hostBad,    \* the listener has read a command file that did not parse
    readMatch,  \* readMatch[t]: a read_text of the call returned a well-formed response with the call's id
    answered,   \* answered[t]: the matching response the listener wrote in the call's window and how
                \* ("clean": to an empty path, "over": over another file), until something else replaces it
    appeared,   \* appeared[t]: what else was at the response path in the call's window: "none", "junk", "stale"
    polled,     \* polled[t]: the call has made a deadline check
    publishes,  \* publishes[t]: mkstemp calls the call made
    shown,      \* shown[t]: the text call_tool made of the call's response (make_result)
    cancelled,  \* cancelled[t]: the task awaiting t's call was cancelled (caller timeout, shutdown)
    envelope,   \* one send_command(action, params) followed through json.dump and a reader's json.loads
    cfg,        \* a JSON config file of the installer
    cfgOp       \* the last merge_json_config / remove_json_config_key call on cfg and what it returned

vars == <<ipcDir, fs, nextId, pc, cmd, tmp_path, content, elapsed, ret,
          hostCmd, hostBad, readMatch, answered, appeared, polled, publishes,
          shown, cancelled, envelope, cfg, cfgOp>>

---------------------------------------------------------------------------
(* Bounds of the model *)

\* send_command calls issued in one run
MaxCalls == 2
\* names mkstemp can choose from (TMP_MAX in tempfile)
MaxTmp == 2
\* ticks by which one time.sleep may last longer than asked
MaxOversleep == 2

(* Program constants, in ticks *)
POLL_INTERVAL == 2
TIMEOUT == 3

\* _quick_ping: while time.monotonic() - start < 2.0; time.sleep(0.05)
PING_TIMEOUT == 2
PING_INTERVAL == 1

CMD_FILE == "command.json"
RSP_FILE == "response.json"

\* every worker thread asyncio.to_thread may run send_command on
Workers == {"w1", "w2"}

\* the (name, arguments) of a tool call
Actions == {"ping"}
Arguments == {"None"}

\* an id no call of this process drew: a response left by another client
FOREIGN == "0"

NoText == <<>>
NoDict == <<>>

---------------------------------------------------------------------------
(* JSON *)

\* json.dump / the listener's encoder, for an object given as its (key, value) pairs in order
RECURSIVE Members(_)
Members(pairs) ==
    IF pairs = <<>> THEN <<>>
    ELSE <<pairs[1][1], pairs[1][2]>> \o Members(Tail(pairs))

Dumps(pairs) == <<"{">> \o Members(pairs) \o <<"}">>

\* json.dump(cmd, f)
CmdText(c) == Dumps(<< <<"id", c.id>>, <<"action", c.action>>, <<"params", c.params>> >>)

\* the JSON text "[]"
ListText == <<"[", "]">>

IsObjText(text) ==
    /\ Len(text) >= 2
    /\ text[1] = "{"
    /\ text[Len(text)] = "}"
    /\ (Len(text) - 2) % 2 = 0
    /\ \A i \in 2..(Len(text) - 1) : text[i] \notin {"{", "}", "[", "]"}

\* the dict of an object text; of a repeated key the last value stands
ObjOf(text) ==
    LET n == (Len(text) - 2) \div 2
        last(k) == CHOOSE i \in 1..n :
                      /\ text[2 * i] = k
                      /\ \A j \in 1..n : text[2 * j] = k => j <= i
    IN  [k \in {text[2 * i] : i \in 1..n} |-> text[2 * last(k) + 1]]

\* json.loads: a dict, another JSON value, or JSONDecodeError
Loads(text) ==
    IF IsObjText(text) THEN [kind |-> "dict", val |-> ObjOf(text)]
    ELSE IF text = ListText THEN [kind |-> "list", val |-> NoDict]
    ELSE [kind |-> "JSONDecodeError", val |-> NoDict]

\* dict.get(key): None for a missing key
Get(d, key) == IF key \in DOMAIN d THEN d[key] ELSE "null"

---------------------------------------------------------------------------
(* Files *)

Exists(path) == path \in DOMAIN fs

\* a whole-file write or an os.replace onto path
Put(f, path, text) == [q \in DOMAIN f \cup {path} |-> IF q = path THEN text ELSE f[q]]

\* mutant: unlink empties the file and leaves it at its path
RemoveTruncates(f, path) == [q \in DOMAIN f |-> IF q = path THEN <<>> ELSE f[q]]

\* unlink
Remove(f, path) == [q \in DOMAIN f \ {path} |-> f[q]]

TmpName(i) == "tmp" \o ToString(i)
TmpNames == {TmpName(i) : i \in 1..MaxTmp}

\* mutant: the envelope is written straight to the command path
MkstempNameDirect == CMD_FILE

\* the name mkstemp(dir=IPC_DIR, suffix=".tmp") picks: one no file of IPC_DIR has
FreeTmp == {i \in 1..MaxTmp : ~Exists(TmpName(i))}
MkstempName == TmpName(CHOOSE i \in FreeTmp : \A j \in FreeTmp : i <= j)

\* os.replace(src, dst): dst gets src's file in one step, src is gone
Replace(f, src, dst) == IF src = dst THEN f ELSE Remove(Put(f, dst, f[src]), src)

\* what a write that failed part-way left of text: its beginning
Truncations(text) == {SubSeq(text, 1, 1)}

---------------------------------------------------------------------------
(* Values send_command returns *)

NoRet == [kind |-> "none", val |-> NoDict]
Return(d) == [kind |-> "return", val |-> d]
Raise(exc) == [kind |-> "raise", val |-> [exc |-> exc]]

TIMEOUT_ERROR == "Timeout - REAPER did not respond. Make sure reaper_listener.lua is running inside REAPER. Run 'python mcp_server.py check' for diagnostics."
WRITE_ERROR == "Failed to write command file"

PublishFailure(cmd_id) ==
    [id |-> cmd_id, success |-> "false", result |-> "null", error |-> WRITE_ERROR]

TimeoutFailure(cmd_id) ==
    [id |-> cmd_id, success |-> "false", result |-> "null", error |-> TIMEOUT_ERROR]

\* mutant: any response with an id is taken
MatchesAnyId(response, cmd_id) == "id" \in DOMAIN response

\* response.get("id") == cmd_id
Matches(response, cmd_id) == Get(response, "id") = cmd_id

---------------------------------------------------------------------------
(* The listener's texts *)

HOST_ERROR == "boom"

SuccessText(id) == Dumps(<< <<"id", id>>, <<"success", "true">>, <<"result", "{ok:true}">> >>)
ErrorText(id) == Dumps(<< <<"id", id>>, <<"success", "false">>, <<"error", HOST_ERROR>> >>)
NoIdText == Dumps(<< <<"success", "true">> >>)
TruncatedText == <<"{", "id">>

\* the listener answers the command it read; another client's answer may turn up too
HostTexts ==
    {SuccessText(FOREIGN), NoIdText, ListText, TruncatedText}
        \cup (IF hostCmd = "none" THEN {} ELSE {SuccessText(hostCmd), ErrorText(hostCmd)})

\* text is a well-formed response carrying id
IsAnswerTo(text, id) ==
    /\ IsObjText(text)
    /\ "id" \in DOMAIN ObjOf(text)
    /\ ObjOf(text)["id"] = id

\* text is a well-formed response carrying another id
IsStaleFor(text, id) ==
    /\ IsObjText(text)
    /\ "id" \in DOMAIN ObjOf(text)
    /\ ObjOf(text)["id"] # id

---------------------------------------------------------------------------
(* State *)

NoCmd == [id |-> "", action |-> "", params |-> ""]

NoAnswer == [how |-> "no", text |-> NoText]

InitChannel ==
    /\ ipcDir \in {"absent", "open"}
    /\ fs = <<>>
    /\ nextId = 1
    /\ pc = [t \in Workers |-> "idle"]
    /\ cmd = [t \in Workers |-> NoCmd]
    /\ tmp_path = [t \in Workers |-> ""]
    /\ content = [t \in Workers |-> NoText]
    /\ elapsed = [t \in Workers |-> 0]
    /\ ret = [t \in Workers |-> NoRet]
    /\ hostCmd = "none"
    /\ hostBad = FALSE
    /\ readMatch = [t \in Workers |-> FALSE]
    /\ answered = [t \in Workers |-> NoAnswer]
    /\ appeared = [t \in Workers |-> "none"]
    /\ polled = [t \in Workers |-> FALSE]
    /\ publishes = [t \in Workers |-> 0]
    /\ shown = [t \in Workers |-> ""]
    /\ cancelled = [t \in Workers |-> FALSE]

NoDecoded == [ok |-> FALSE, id |-> "", action |-> "", params |-> <<>>]
NoEnvelope == [stage |-> "none", action |-> "", params |-> <<>>, id |-> "", decoded |-> NoDecoded]

\* a JSON object is the sequence of its (key, value) pairs in file order
EmptyTop == [kind |-> "obj", kids |-> <<>>]
\* no config file
AbsentFile == [state |-> "absent", fmt |-> "none", top |-> EmptyTop]
NoOp == [op |-> "none", kp |-> <<>>, value |-> "", ret |-> "", paired |-> FALSE, base |-> AbsentFile]

Init ==
    /\ InitChannel
    /\ envelope = NoEnvelope
    /\ cfg = AbsentFile
    /\ cfgOp = NoOp

\* the call is between publishing its command and its deadline
InWindow(t) == pc[t] \in {"poll", "read", "unlink", "sleep"} /\ elapsed[t] < TIMEOUT

\* answered after a step of t that removed the response file
Bereft(t) == [u \in Workers |-> IF u = t THEN answered[u] ELSE NoAnswer]

\* what a file with text at the response path is to t's call, having been other before
Appearance(text, id, other) ==
    IF IsAnswerTo(text, id) THEN other
    ELSE IF IsStaleFor(text, id) \/ other = "stale" THEN "stale"
    ELSE "junk"

hostVars == <<hostCmd, hostBad>>
ghostVars == <<readMatch, answered, appeared, polled, publishes>>
localVars == <<cmd, tmp_path, content, elapsed, ret>>
\* what send_command and the listener never touch
auxVars == <<shown, cancelled, envelope, cfg, cfgOp>>

---------------------------------------------------------------------------
(* send_command, step by step *)

\* mutant: a failed chmod leaves the directory open to others
EnsureIpcDirReset(dir, chmodOk) == IF chmodOk THEN "private" ELSE "open"

\* ensure_ipc_dir() once mkdir(parents=True, exist_ok=True) has succeeded:
\* chmod(S_IRWXU); its OSError is swallowed, and win32 has none
EnsureIpcDir(dir, chmodOk) ==
    IF chmodOk THEN "private"
    ELSE IF dir = "absent" THEN "open"
    ELSE dir

\* mutant: every call draws the same id
Uuid4Fixed(n) == ToString(1)

\* str(uuid.uuid4()): the n-th id drawn is one never drawn before
Uuid4(n) == ToString(n)

\* params or {}
ParamsOf(p) == IF p = "None" THEN "{}" ELSE p

\* mutant: a tool call waits until no other call is under way
CallSerial(t) ==
    /\ pc[t] = "idle"
    /\ \A u \in Workers : pc[u] = "idle"
    /\ nextId <= MaxCalls
    /\ \/ \* mkdir raises OSError: nothing catches it
          /\ ipcDir = "absent"
          /\ pc' = [pc EXCEPT ![t] = "done"]
          /\ ret' = [ret EXCEPT ![t] = Raise("OSError")]
          /\ UNCHANGED <<ipcDir, cmd>>
       \/ /\ \E chmodOk \in BOOLEAN : ipcDir' = EnsureIpcDir(ipcDir, chmodOk)
          /\ \E a \in Actions, p \in Arguments :
                cmd' = [cmd EXCEPT ![t] = [id |-> Uuid4(nextId), action |-> a,
                                           params |-> ParamsOf(p)]]
          /\ pc' = [pc EXCEPT ![t] = "unlink0"]
          /\ UNCHANGED ret
    /\ nextId' = nextId + 1
    /\ UNCHANGED <<fs, tmp_path, content, elapsed, hostVars, ghostVars, auxVars>>

\* mutant: the OSError of a failed chmod is not caught
CallChmodFatal(t) ==
    /\ pc[t] = "idle"
    /\ nextId <= MaxCalls
    /\ \/ /\ ipcDir = "absent"
          /\ pc' = [pc EXCEPT ![t] = "done"]
          /\ ret' = [ret EXCEPT ![t] = Raise("OSError")]
          /\ UNCHANGED <<ipcDir, cmd>>
       \/ /\ ipcDir' = EnsureIpcDir(ipcDir, FALSE)
          /\ pc' = [pc EXCEPT ![t] = "done"]
          /\ ret' = [ret EXCEPT ![t] = Raise("OSError")]
          /\ UNCHANGED cmd
       \/ /\ ipcDir' = EnsureIpcDir(ipcDir, TRUE)
          /\ \E a \in Actions, p \in Arguments :
                cmd' = [cmd EXCEPT ![t] = [id |-> Uuid4(nextId), action |-> a,
                                           params |-> ParamsOf(p)]]
          /\ pc' = [pc EXCEPT ![t] = "unlink0"]
          /\ UNCHANGED ret
    /\ nextId' = nextId + 1
    /\ UNCHANGED <<fs, tmp_path, content, elapsed, hostVars, ghostVars, auxVars>>

\* call_tool: asyncio.to_thread(send_command, name, arguments);
\* send_command: ensure_ipc_dir(); cmd_id = str(uuid.uuid4()); cmd = {...}
Call(t) ==
    /\ pc[t] = "idle"
    /\ nextId <= MaxCalls
    /\ \/ \* mkdir raises OSError: nothing catches it
          /\ ipcDir = "absent"
          /\ pc' = [pc EXCEPT ![t] = "done"]
          /\ ret' = [ret EXCEPT ![t] = Raise("OSError")]
          /\ UNCHANGED <<ipcDir, cmd>>
       \/ /\ \E chmodOk \in BOOLEAN : ipcDir' = EnsureIpcDir(ipcDir, chmodOk)
          /\ \E a \in Actions, p \in Arguments :
                cmd' = [cmd EXCEPT ![t] = [id |-> Uuid4(nextId), action |-> a,
                                           params |-> ParamsOf(p)]]
          /\ pc' = [pc EXCEPT ![t] = "unlink0"]
          /\ UNCHANGED ret
    /\ nextId' = nextId + 1
    /\ UNCHANGED <<fs, tmp_path, content, elapsed, hostVars, ghostVars, auxVars>>

\* RSP_FILE.unlink(missing_ok=True), OSError swallowed
DeleteStale(t) ==
    /\ pc[t] = "unlink0"
    /\ \/ /\ fs' = Remove(fs, RSP_FILE)
          /\ answered' = Bereft(t)
       \/ /\ Exists(RSP_FILE)
          /\ UNCHANGED <<fs, answered>>
    /\ pc' = [pc EXCEPT ![t] = "mkstemp"]
    /\ UNCHANGED <<ipcDir, nextId, localVars, hostVars, auxVars, readMatch, appeared, polled, publishes>>

\* fd, tmp_path = tempfile.mkstemp(dir=IPC_DIR, suffix=".tmp")
\* with os.fdopen(fd, "w") as f: json.dump(cmd, f)
WriteTmp(t) ==
    /\ pc[t] = "mkstemp"
    /\ publishes' = [publishes EXCEPT ![t] = @ + 1]
    /\ \/ \* the temp file holds the whole envelope
          /\ FreeTmp # {}
          /\ fs' = Put(fs, MkstempName, CmdText(cmd[t]))
          /\ tmp_path' = [tmp_path EXCEPT ![t] = MkstempName]
          /\ pc' = [pc EXCEPT ![t] = "replace"]
          /\ UNCHANGED ret
       \/ \* the write raises OSError
          /\ FreeTmp # {}
          /\ \E part \in Truncations(CmdText(cmd[t])) : fs' = Put(fs, MkstempName, part)
          /\ tmp_path' = [tmp_path EXCEPT ![t] = MkstempName]
          /\ ret' = [ret EXCEPT ![t] = Return(PublishFailure(cmd[t].id))]
          /\ pc' = [pc EXCEPT ![t] = "done"]
       \/ \* mkstemp raises OSError
          /\ ret' = [ret EXCEPT ![t] = Return(PublishFailure(cmd[t].id))]
          /\ pc' = [pc EXCEPT ![t] = "done"]
          /\ UNCHANGED <<fs, tmp_path>>
    /\ UNCHANGED <<ipcDir, nextId, cmd, content, elapsed, hostVars, auxVars, readMatch, answered, appeared, polled>>

\* mutant: a failed os.replace sends the call back to publish again
ReplaceCmdRetry(t) ==
    /\ pc[t] = "replace"
    /\ \/ /\ fs' = Replace(fs, tmp_path[t], CMD_FILE)
          /\ pc' = [pc EXCEPT ![t] = "poll"]
          /\ appeared' = [appeared EXCEPT ![t] =
                            IF Exists(RSP_FILE) THEN Appearance(fs[RSP_FILE], cmd[t].id, "junk")
                            ELSE "none"]
       \/ /\ pc' = [pc EXCEPT ![t] = "mkstemp"]
          /\ UNCHANGED <<fs, appeared>>
    /\ UNCHANGED <<ipcDir, nextId, cmd, tmp_path, content, elapsed, ret, hostVars, auxVars, readMatch, answered, polled, publishes>>

\* mutant: an os.replace that fails has already put the envelope in place
ReplaceCmdTorn(t) ==
    /\ pc[t] = "replace"
    /\ \/ /\ fs' = Replace(fs, tmp_path[t], CMD_FILE)
          /\ pc' = [pc EXCEPT ![t] = "poll"]
          /\ appeared' = [appeared EXCEPT ![t] =
                            IF Exists(RSP_FILE) THEN Appearance(fs[RSP_FILE], cmd[t].id, "junk")
                            ELSE "none"]
          /\ UNCHANGED ret
       \/ /\ ret' = [ret EXCEPT ![t] = Return(PublishFailure(cmd[t].id))]
          /\ pc' = [pc EXCEPT ![t] = "done"]
          /\ fs' = Put(fs, CMD_FILE, fs[tmp_path[t]])
          /\ UNCHANGED appeared
    /\ UNCHANGED <<ipcDir, nextId, cmd, tmp_path, content, elapsed, hostVars, auxVars, readMatch, answered, polled, publishes>>

\* os.replace(tmp_path, CMD_FILE); start = time.monotonic()
ReplaceCmd(t) ==
    /\ pc[t] = "replace"
    /\ \/ /\ fs' = Replace(fs, tmp_path[t], CMD_FILE)
          /\ pc' = [pc EXCEPT ![t] = "poll"]
          /\ appeared' = [appeared EXCEPT ![t] =
                            IF Exists(RSP_FILE) THEN Appearance(fs[RSP_FILE], cmd[t].id, "junk")
                            ELSE "none"]
          /\ UNCHANGED ret
       \/ /\ ret' = [ret EXCEPT ![t] = Return(PublishFailure(cmd[t].id))]
          /\ pc' = [pc EXCEPT ![t] = "done"]
          /\ UNCHANGED <<fs, appeared>>
    /\ UNCHANGED <<ipcDir, nextId, cmd, tmp_path, content, elapsed, hostVars, auxVars, readMatch, answered, polled, publishes>>

\* mutant: the loop goes on while elapsed <= TIMEOUT
CheckInclusive(t, e) ==
    IF e <= TIMEOUT
    THEN [pc |-> IF Exists(RSP_FILE) THEN "read" ELSE "sleep", ret |-> NoRet]
    ELSE [pc |-> "done", ret |-> Return(TimeoutFailure(cmd[t].id))]

\* while time.monotonic() - start < TIMEOUT: if RSP_FILE.exists(): ... ; after the loop: return timeout
\* the call's next place and return value on reading the clock at e
Check(t, e) ==
    IF e < TIMEOUT
    THEN [pc |-> IF Exists(RSP_FILE) THEN "read" ELSE "sleep", ret |-> NoRet]
    ELSE [pc |-> "done", ret |-> Return(TimeoutFailure(cmd[t].id))]

\* the first pass of the loop
Poll(t) ==
    /\ pc[t] = "poll"
    /\ polled' = [polled EXCEPT ![t] = TRUE]
    /\ pc' = [pc EXCEPT ![t] = Check(t, elapsed[t]).pc]
    /\ ret' = [ret EXCEPT ![t] = Check(t, elapsed[t]).ret]
    /\ UNCHANGED <<ipcDir, fs, nextId, cmd, tmp_path, content, elapsed, hostVars, auxVars, readMatch, answered, appeared, publishes>>

\* mutant: a response that was read is kept and the pass goes to its sleep
ReadRspKeeps(t) ==
    /\ pc[t] = "read"
    /\ \/ /\ Exists(RSP_FILE)
          /\ content' = [content EXCEPT ![t] = fs[RSP_FILE]]
          /\ readMatch' = [readMatch EXCEPT ![t] = @ \/ IsAnswerTo(fs[RSP_FILE], cmd[t].id)]
          /\ pc' = [pc EXCEPT ![t] = "sleep"]
       \/ /\ pc' = [pc EXCEPT ![t] = "sleep"]
          /\ UNCHANGED <<content, readMatch>>
    /\ UNCHANGED <<ipcDir, fs, nextId, cmd, tmp_path, elapsed, ret, hostVars, auxVars, answered, appeared, polled, publishes>>

\* mutant: reading a file that has gone raises out of the call
ReadRspRaises(t) ==
    /\ pc[t] = "read"
    /\ \/ /\ Exists(RSP_FILE)
          /\ content' = [content EXCEPT ![t] = fs[RSP_FILE]]
          /\ readMatch' = [readMatch EXCEPT ![t] = @ \/ IsAnswerTo(fs[RSP_FILE], cmd[t].id)]
          /\ pc' = [pc EXCEPT ![t] = "unlink"]
          /\ UNCHANGED ret
       \/ /\ pc' = [pc EXCEPT ![t] = "done"]
          /\ ret' = [ret EXCEPT ![t] = Raise("OSError")]
          /\ UNCHANGED <<content, readMatch>>
    /\ UNCHANGED <<ipcDir, fs, nextId, cmd, tmp_path, elapsed, hostVars, auxVars, answered, appeared, polled, publishes>>

\* content = RSP_FILE.read_text(encoding="utf-8"), OSError swallowed
ReadRsp(t) ==
    /\ pc[t] = "read"
    /\ \/ /\ Exists(RSP_FILE)
          /\ content' = [content EXCEPT ![t] = fs[RSP_FILE]]
          /\ readMatch' = [readMatch EXCEPT ![t] = @ \/ IsAnswerTo(fs[RSP_FILE], cmd[t].id)]
          /\ pc' = [pc EXCEPT ![t] = "unlink"]
       \/ /\ pc' = [pc EXCEPT ![t] = "sleep"]
          /\ UNCHANGED <<content, readMatch>>
    /\ UNCHANGED <<ipcDir, fs, nextId, cmd, tmp_path, elapsed, ret, hostVars, auxVars, answered, appeared, polled, publishes>>

\* mutant: a response with another id sends the call back to publish again
ParsedRetry(t) ==
    LET response == Loads(content[t])
    IN  IF response.kind = "JSONDecodeError" THEN [pc |-> "sleep", ret |-> NoRet]
        ELSE IF response.kind # "dict" THEN [pc |-> "done", ret |-> Raise("AttributeError")]
        ELSE IF Matches(response.val, cmd[t].id) THEN [pc |-> "done", ret |-> Return(response.val)]
        ELSE [pc |-> "mkstemp", ret |-> NoRet]

\* response = json.loads(content); if response.get("id") == cmd_id: return response
\* JSONDecodeError is swallowed; a value with no .get raises AttributeError
Parsed(t) ==
    LET response == Loads(content[t])
    IN  IF response.kind = "JSONDecodeError" THEN [pc |-> "sleep", ret |-> NoRet]
        ELSE IF response.kind # "dict" THEN [pc |-> "done", ret |-> Raise("AttributeError")]
        ELSE IF Matches(response.val, cmd[t].id) THEN [pc |-> "done", ret |-> Return(response.val)]
        ELSE [pc |-> "sleep", ret |-> NoRet]

\* mutant: the pass that consumes the response deletes the command file too
UnlinkRspBoth(t) ==
    /\ pc[t] = "unlink"
    /\ \/ /\ fs' = Remove(Remove(fs, RSP_FILE), CMD_FILE)
          /\ answered' = Bereft(t)
          /\ pc' = [pc EXCEPT ![t] = Parsed(t).pc]
          /\ ret' = [ret EXCEPT ![t] = Parsed(t).ret]
       \/ /\ Exists(RSP_FILE)
          /\ pc' = [pc EXCEPT ![t] = "sleep"]
          /\ UNCHANGED <<fs, answered, ret>>
    /\ content' = [content EXCEPT ![t] = NoText]
    /\ UNCHANGED <<ipcDir, nextId, cmd, tmp_path, elapsed, hostVars, auxVars, readMatch, appeared, polled, publishes>>

\* RSP_FILE.unlink(missing_ok=True), OSError swallowed; then the parse
UnlinkRsp(t) ==
    /\ pc[t] = "unlink"
    /\ \/ /\ fs' = Remove(fs, RSP_FILE)
          /\ answered' = Bereft(t)
          /\ pc' = [pc EXCEPT ![t] = Parsed(t).pc]
          /\ ret' = [ret EXCEPT ![t] = Parsed(t).ret]
       \/ /\ Exists(RSP_FILE)
          /\ pc' = [pc EXCEPT ![t] = "sleep"]
          /\ UNCHANGED <<fs, answered, ret>>
    /\ content' = [content EXCEPT ![t] = NoText]
    /\ UNCHANGED <<ipcDir, nextId, cmd, tmp_path, elapsed, hostVars, auxVars, readMatch, appeared, polled, publishes>>

\* time.sleep(POLL_INTERVAL), then the next pass of the loop
Sleep(t) ==
    /\ pc[t] = "sleep"
    /\ \E over \in 0..MaxOversleep :
          LET e == elapsed[t] + POLL_INTERVAL + over
          IN  /\ elapsed' = [elapsed EXCEPT ![t] = e]
              /\ pc' = [pc EXCEPT ![t] = Check(t, e).pc]
              /\ ret' = [ret EXCEPT ![t] = Check(t, e).ret]
    /\ UNCHANGED <<ipcDir, fs, nextId, cmd, tmp_path, content, hostVars, ghostVars, auxVars>>

\* bool(v) of a JSON value
Truthy(v) == v \notin {"false", "null", "0", "{}", "[]"}

\* str(v) of a JSON value inside an f-string
PyStr(v) == IF v = "null" THEN "None" ELSE IF v = "true" THEN "True" ELSE IF v = "false" THEN "False" ELSE v

\* mutant: every failure is rendered with the same text
MakeResultGeneric(response) ==
    IF Truthy(Get(response, "success"))
    THEN (IF "result" \in DOMAIN response THEN response["result"] ELSE "{}")
    ELSE "Error: Unknown error"

\* make_result(response): json.dumps(response.get("result", {})) on success,
\* f"Error: {response.get('error', 'Unknown error')}" otherwise
MakeResult(response) ==
    IF Truthy(Get(response, "success"))
    THEN (IF "result" \in DOMAIN response THEN response["result"] ELSE "{}")
    ELSE "Error: " \o (IF "error" \in DOMAIN response THEN PyStr(response["error"]) ELSE "Unknown error")

\* what comes of an exception that leaves call_tool
RAISED == "raised"

\* call_tool: response = await asyncio.to_thread(...); return make_result(response)
Render(t) ==
    /\ pc[t] = "done"
    /\ pc' = [pc EXCEPT ![t] = "reply"]
    /\ shown' = [shown EXCEPT ![t] =
                    IF ret[t].kind = "return" THEN MakeResult(ret[t].val) ELSE RAISED]
    /\ UNCHANGED <<ipcDir, fs, nextId, localVars, hostVars, ghostVars, cancelled, envelope, cfg, cfgOp>>

\* the tool call is over: the server has call_tool's result (or its exception)
Finish(t) ==
    /\ pc[t] = "reply"
    /\ pc' = [pc EXCEPT ![t] = "idle"]
    /\ cmd' = [cmd EXCEPT ![t] = NoCmd]
    /\ tmp_path' = [tmp_path EXCEPT ![t] = ""]
    /\ content' = [content EXCEPT ![t] = NoText]
    /\ elapsed' = [elapsed EXCEPT ![t] = 0]
    /\ ret' = [ret EXCEPT ![t] = NoRet]
    /\ readMatch' = [readMatch EXCEPT ![t] = FALSE]
    /\ answered' = [answered EXCEPT ![t] = NoAnswer]
    /\ appeared' = [appeared EXCEPT ![t] = "none"]
    /\ polled' = [polled EXCEPT ![t] = FALSE]
    /\ publishes' = [publishes EXCEPT ![t] = 0]
    /\ shown' = [shown EXCEPT ![t] = ""]
    /\ cancelled' = [cancelled EXCEPT ![t] = FALSE]
    /\ UNCHANGED <<ipcDir, fs, nextId, hostVars, envelope, cfg, cfgOp>>

---------------------------------------------------------------------------
(* The listener inside REAPER *)

\* the listener reads command.json
HostReadCmd ==
    /\ Exists(CMD_FILE)
    /\ LET c == Loads(fs[CMD_FILE])
       IN  IF c.kind = "dict" /\ "id" \in DOMAIN c.val
           THEN /\ hostCmd' = c.val["id"]
                /\ hostCmd' # hostCmd
                /\ UNCHANGED hostBad
           ELSE /\ hostBad' = TRUE
                /\ UNCHANGED hostCmd
    /\ UNCHANGED <<ipcDir, fs, nextId, pc, localVars, ghostVars, auxVars>>

\* the listener writes one of texts to response.json
HostWrite(texts) ==
    /\ ipcDir # "absent"
    /\ \E text \in texts :
          /\ ~(Exists(RSP_FILE) /\ fs[RSP_FILE] = text)
          /\ fs' = Put(fs, RSP_FILE, text)
          /\ answered' =
                [t \in Workers |->
                    IF InWindow(t) /\ IsAnswerTo(text, cmd[t].id)
                    THEN [how |-> IF Exists(RSP_FILE) THEN "over" ELSE "clean", text |-> text]
                    ELSE NoAnswer]
          /\ appeared' =
                [t \in Workers |->
                    IF InWindow(t) THEN Appearance(text, cmd[t].id, appeared[t])
                    ELSE appeared[t]]
    /\ UNCHANGED <<ipcDir, nextId, pc, localVars, hostVars, auxVars, readMatch, polled, publishes>>

\* the listener writes response.json: an answer, or something else
HostWriteRsp == HostWrite(HostTexts)

\* a listener that does nothing but answer the command it read, successfully
HostAnswers == IF hostCmd = "none" THEN {} ELSE {SuccessText(hostCmd)}
HostAnswerRsp == HostWrite(HostAnswers)

Host == HostReadCmd \/ HostWriteRsp

---------------------------------------------------------------------------
(* Specifications *)

Step(t) ==
    \/ Call(t)
    \/ DeleteStale(t)
    \/ WriteTmp(t)
    \/ ReplaceCmd(t)
    \/ Poll(t)
    \/ ReadRsp(t)
    \/ UnlinkRsp(t)
    \/ Sleep(t)
    \/ Render(t)
    \/ Finish(t)

\* one client thread and the listener
Next == Step("w1") \/ Host

Spec == Init /\ [][Next]_vars

\* call_tool's task is cancelled while it awaits the worker thread (the caller
\* gave up, the server shuts down): the await ends, the thread is not told
Cancel(t) ==
    /\ InWindow(t)
    /\ ~cancelled[t]
    /\ cancelled' = [cancelled EXCEPT ![t] = TRUE]
    /\ UNCHANGED <<ipcDir, fs, nextId, pc, localVars, hostVars, ghostVars, shown, envelope, cfg, cfgOp>>

NextCancel == Next \/ Cancel("w1")

\* one client thread, the listener, and cancellation of the pending tool call
SpecCancel == Init /\ [][NextCancel]_vars

\* the worker thread is scheduled: a step of send_command that can be taken is taken
SpecFair == Init /\ [][Next]_vars /\ WF_vars(Step("w1"))

\* concurrent tool calls: every worker thread and a listener that only answers
NextConc == (\E t \in Workers : Step(t)) \/ HostReadCmd \/ HostAnswerRsp

SpecConc == Init /\ [][NextConc]_vars

---------------------------------------------------------------------------
(* send_command with its constants and its two failure values as parameters *)

\* lines 120-129, the failure value being failure
WriteTmpWith(t, failure) ==
    /\ pc[t] = "mkstemp"
    /\ publishes' = [publishes EXCEPT ![t] = @ + 1]
    /\ \/ /\ FreeTmp # {}
          /\ fs' = Put(fs, MkstempName, CmdText(cmd[t]))
          /\ tmp_path' = [tmp_path EXCEPT ![t] = MkstempName]
          /\ pc' = [pc EXCEPT ![t] = "replace"]
          /\ UNCHANGED ret
       \/ /\ FreeTmp # {}
          /\ \E part \in Truncations(CmdText(cmd[t])) : fs' = Put(fs, MkstempName, part)
          /\ tmp_path' = [tmp_path EXCEPT ![t] = MkstempName]
          /\ ret' = [ret EXCEPT ![t] = failure]
          /\ pc' = [pc EXCEPT ![t] = "done"]
       \/ /\ ret' = [ret EXCEPT ![t] = failure]
          /\ pc' = [pc EXCEPT ![t] = "done"]
          /\ UNCHANGED <<fs, tmp_path>>
    /\ UNCHANGED <<ipcDir, nextId, cmd, content, elapsed, hostVars, auxVars, readMatch, answered, appeared, polled>>

\* lines 123-129, the failure value being failure
ReplaceCmdWith(t, failure) ==
    /\ pc[t] = "replace"
    /\ \/ /\ fs' = Replace(fs, tmp_path[t], CMD_FILE)
          /\ pc' = [pc EXCEPT ![t] = "poll"]
          /\ appeared' = [appeared EXCEPT ![t] =
                            IF Exists(RSP_FILE) THEN Appearance(fs[RSP_FILE], cmd[t].id, "junk")
                            ELSE "none"]
          /\ UNCHANGED ret
       \/ /\ ret' = [ret EXCEPT ![t] = failure]
          /\ pc' = [pc EXCEPT ![t] = "done"]
          /\ UNCHANGED <<fs, appeared>>
    /\ UNCHANGED <<ipcDir, nextId, cmd, tmp_path, content, elapsed, hostVars, auxVars, readMatch, answered, polled, publishes>>

\* lines 132-133 and 144-151, the deadline being timeout and the value
\* returned after it failure
CheckWith(e, timeout, failure) ==
    IF e < timeout
    THEN [pc |-> IF Exists(RSP_FILE) THEN "read" ELSE "sleep", ret |-> NoRet]
    ELSE [pc |-> "done", ret |-> failure]

PollWith(t, timeout, failure) ==
    /\ pc[t] = "poll"
    /\ polled' = [polled EXCEPT ![t] = TRUE]
    /\ pc' = [pc EXCEPT ![t] = CheckWith(elapsed[t], timeout, failure).pc]
    /\ ret' = [ret EXCEPT ![t] = CheckWith(elapsed[t], timeout, failure).ret]
    /\ UNCHANGED <<ipcDir, fs, nextId, cmd, tmp_path, content, elapsed, hostVars, auxVars, readMatch, answered, appeared, publishes>>

\* line 142, the sleep being interval
SleepWith(t, interval, timeout, failure) ==
    /\ pc[t] = "sleep"
    /\ \E over \in 0..MaxOversleep :
          LET e == elapsed[t] + interval + over
          IN  /\ elapsed' = [elapsed EXCEPT ![t] = e]
              /\ pc' = [pc EXCEPT ![t] = CheckWith(e, timeout, failure).pc]
              /\ ret' = [ret EXCEPT ![t] = CheckWith(e, timeout, failure).ret]
    /\ UNCHANGED <<ipcDir, fs, nextId, cmd, tmp_path, content, hostVars, ghostVars, auxVars>>

\* a step of send_command run with these constants and failure values
SendCommandWith(t, timeout, interval, writeFailure, timeoutFailure) ==
    \/ Call(t)
    \/ DeleteStale(t)
    \/ WriteTmpWith(t, writeFailure)
    \/ ReplaceCmdWith(t, writeFailure)
    \/ PollWith(t, timeout, timeoutFailure)
    \/ ReadRsp(t)
    \/ UnlinkRsp(t)
    \/ SleepWith(t, interval, timeout, timeoutFailure)

\* with TIMEOUT, POLL_INTERVAL and its own two failure dicts, that is
\* send_command as it stands, step for step
SendCommandWithDefaults ==
    [][\A t \in Workers :
          LET writeFailure == Return(PublishFailure(cmd[t].id))
              timeoutFailure == Return(TimeoutFailure(cmd[t].id))
          IN  /\ WriteTmp(t) <=> WriteTmpWith(t, writeFailure)
              /\ ReplaceCmd(t) <=> ReplaceCmdWith(t, writeFailure)
              /\ Poll(t) <=> PollWith(t, TIMEOUT, timeoutFailure)
              /\ Sleep(t) <=> SleepWith(t, POLL_INTERVAL, TIMEOUT, timeoutFailure)]_vars

---------------------------------------------------------------------------
(* _quick_ping, step by step *)

\* {"success": False}
BARE_FAILURE == [success |-> "false"]

\* ensure_ipc_dir(); cmd_id = str(uuid.uuid4())
\* cmd = {"id": cmd_id, "action": "ping", "params": {}}
PingCall(t) ==
    /\ pc[t] = "idle"
    /\ nextId <= MaxCalls
    /\ \/ \* mkdir raises OSError: nothing catches it
          /\ ipcDir = "absent"
          /\ pc' = [pc EXCEPT ![t] = "done"]
          /\ ret' = [ret EXCEPT ![t] = Raise("OSError")]
          /\ UNCHANGED <<ipcDir, cmd>>
       \/ /\ \E chmodOk \in BOOLEAN : ipcDir' = EnsureIpcDir(ipcDir, chmodOk)
          /\ cmd' = [cmd EXCEPT ![t] = [id |-> Uuid4(nextId), action |-> "ping", params |-> "{}"]]
          /\ pc' = [pc EXCEPT ![t] = "unlink0"]
          /\ UNCHANGED ret
    /\ nextId' = nextId + 1
    /\ UNCHANGED <<fs, tmp_path, content, elapsed, hostVars, ghostVars, auxVars>>

\* RSP_FILE.unlink(missing_ok=True), OSError swallowed
PingDeleteStale(t) ==
    /\ pc[t] = "unlink0"
    /\ \/ /\ fs' = Remove(fs, RSP_FILE)
          /\ answered' = Bereft(t)
       \/ /\ Exists(RSP_FILE)
          /\ UNCHANGED <<fs, answered>>
    /\ pc' = [pc EXCEPT ![t] = "mkstemp"]
    /\ UNCHANGED <<ipcDir, nextId, localVars, hostVars, auxVars, readMatch, appeared, polled, publishes>>

\* fd, tmp_path = tempfile.mkstemp(dir=IPC_DIR, suffix=".tmp")
\* with os.fdopen(fd, "w") as f: json.dump(cmd, f)
\* except OSError: return {"success": False}
PingWriteTmp(t) ==
    /\ pc[t] = "mkstemp"
    /\ publishes' = [publishes EXCEPT ![t] = @ + 1]
    /\ \/ \* the temp file holds the whole envelope
          /\ FreeTmp # {}
          /\ fs' = Put(fs, MkstempName, CmdText(cmd[t]))
          /\ tmp_path' = [tmp_path EXCEPT ![t] = MkstempName]
          /\ pc' = [pc EXCEPT ![t] = "replace"]
          /\ UNCHANGED ret
       \/ \* the write raises OSError
          /\ FreeTmp # {}
          /\ \E part \in Truncations(CmdText(cmd[t])) : fs' = Put(fs, MkstempName, part)
          /\ tmp_path' = [tmp_path EXCEPT ![t] = MkstempName]
          /\ ret' = [ret EXCEPT ![t] = Return(BARE_FAILURE)]
          /\ pc' = [pc EXCEPT ![t] = "done"]
       \/ \* mkstemp raises OSError
          /\ ret' = [ret EXCEPT ![t] = Return(BARE_FAILURE)]
          /\ pc' = [pc EXCEPT ![t] = "done"]
          /\ UNCHANGED <<fs, tmp_path>>
    /\ UNCHANGED <<ipcDir, nextId, cmd, content, elapsed, hostVars, auxVars, readMatch, answered, appeared, polled>>

\* os.replace(tmp_path, CMD_FILE); except OSError: return {"success": False}
PingReplaceCmd(t) ==
    /\ pc[t] = "replace"
    /\ \/ /\ fs' = Replace(fs, tmp_path[t], CMD_FILE)
          /\ pc' = [pc EXCEPT ![t] = "poll"]
          /\ appeared' = [appeared EXCEPT ![t] =
                            IF Exists(RSP_FILE) THEN Appearance(fs[RSP_FILE], cmd[t].id, "junk")
                            ELSE "none"]
          /\ UNCHANGED ret
       \/ /\ ret' = [ret EXCEPT ![t] = Return(BARE_FAILURE)]
          /\ pc' = [pc EXCEPT ![t] = "done"]
          /\ UNCHANGED <<fs, appeared>>
    /\ UNCHANGED <<ipcDir, nextId, cmd, tmp_path, content, elapsed, hostVars, auxVars, readMatch, answered, polled, publishes>>

\* mutant: the loop goes on while elapsed <= 2.0
PingCheckInclusive(e) ==
    IF e <= PING_TIMEOUT
    THEN [pc |-> IF Exists(RSP_FILE) THEN "read" ELSE "sleep", ret |-> NoRet]
    ELSE [pc |-> "done", ret |-> Return(BARE_FAILURE)]

\* while time.monotonic() - start < 2.0: if RSP_FILE.exists(): ... ; after the
\* loop: return {"success": False}
PingCheck(e) ==
    IF e < PING_TIMEOUT
    THEN [pc |-> IF Exists(RSP_FILE) THEN "read" ELSE "sleep", ret |-> NoRet]
    ELSE [pc |-> "done", ret |-> Return(BARE_FAILURE)]

\* the first pass of the loop
PingPoll(t) ==
    /\ pc[t] = "poll"
    /\ polled' = [polled EXCEPT ![t] = TRUE]
    /\ pc' = [pc EXCEPT ![t] = PingCheck(elapsed[t]).pc]
    /\ ret' = [ret EXCEPT ![t] = PingCheck(elapsed[t]).ret]
    /\ UNCHANGED <<ipcDir, fs, nextId, cmd, tmp_path, content, elapsed, hostVars, auxVars, readMatch, answered, appeared, publishes>>

\* content = RSP_FILE.read_text(encoding="utf-8"), OSError swallowed
PingReadRsp(t) ==
    /\ pc[t] = "read"
    /\ \/ /\ Exists(RSP_FILE)
          /\ content' = [content EXCEPT ![t] = fs[RSP_FILE]]
          /\ readMatch' = [readMatch EXCEPT ![t] = @ \/ IsAnswerTo(fs[RSP_FILE], cmd[t].id)]
          /\ pc' = [pc EXCEPT ![t] = "unlink"]
       \/ /\ pc' = [pc EXCEPT ![t] = "sleep"]
          /\ UNCHANGED <<content, readMatch>>
    /\ UNCHANGED <<ipcDir, fs, nextId, cmd, tmp_path, elapsed, ret, hostVars, auxVars, answered, appeared, polled, publishes>>

\* response = json.loads(content); if response.get("id") == cmd_id: return response
\* JSONDecodeError is swallowed; a value with no .get raises AttributeError
PingParsed(t) ==
    LET response == Loads(content[t])
    IN  IF response.kind = "JSONDecodeError" THEN [pc |-> "sleep", ret |-> NoRet]
        ELSE IF response.kind # "dict" THEN [pc |-> "done", ret |-> Raise("AttributeError")]
        ELSE IF Get(response.val, "id") = cmd[t].id THEN [pc |-> "done", ret |-> Return(response.val)]
        ELSE [pc |-> "sleep", ret |-> NoRet]

\* RSP_FILE.unlink(missing_ok=True), OSError swallowed; then the parse
PingUnlinkRsp(t) ==
    /\ pc[t] = "unlink"
    /\ \/ /\ fs' = Remove(fs, RSP_FILE)
          /\ answered' = Bereft(t)
          /\ pc' = [pc EXCEPT ![t] = PingParsed(t).pc]
          /\ ret' = [ret EXCEPT ![t] = PingParsed(t).ret]
       \/ /\ Exists(RSP_FILE)
          /\ pc' = [pc EXCEPT ![t] = "sleep"]
          /\ UNCHANGED <<fs, answered, ret>>
    /\ content' = [content EXCEPT ![t] = NoText]
    /\ UNCHANGED <<ipcDir, nextId, cmd, tmp_path, elapsed, hostVars, auxVars, readMatch, appeared, polled, publishes>>

\* time.sleep(0.05), then the next pass of the loop
PingSleep(t) ==
    /\ pc[t] = "sleep"
    /\ \E over \in 0..MaxOversleep :
          LET e == elapsed[t] + PING_INTERVAL + over
          IN  /\ elapsed' = [elapsed EXCEPT ![t] = e]
              /\ pc' = [pc EXCEPT ![t] = PingCheck(e).pc]
              /\ ret' = [ret EXCEPT ![t] = PingCheck(e).ret]
    /\ UNCHANGED <<ipcDir, fs, nextId, cmd, tmp_path, content, hostVars, ghostVars, auxVars>>

\* a step of _quick_ping
QuickPing(t) ==
    \/ PingCall(t)
    \/ PingDeleteStale(t)
    \/ PingWriteTmp(t)
    \/ PingReplaceCmd(t)
    \/ PingPoll(t)
    \/ PingReadRsp(t)
    \/ PingUnlinkRsp(t)
    \/ PingSleep(t)

\* cmd_check has _quick_ping's result (or its exception)
PingReturned(t) ==
    /\ pc[t] = "done"
    /\ pc' = [pc EXCEPT ![t] = "idle"]
    /\ cmd' = [cmd EXCEPT ![t] = NoCmd]
    /\ tmp_path' = [tmp_path EXCEPT ![t] = ""]
    /\ content' = [content EXCEPT ![t] = NoText]
    /\ elapsed' = [elapsed EXCEPT ![t] = 0]
    /\ ret' = [ret EXCEPT ![t] = NoRet]
    /\ readMatch' = [readMatch EXCEPT ![t] = FALSE]
    /\ answered' = [answered EXCEPT ![t] = NoAnswer]
    /\ appeared' = [appeared EXCEPT ![t] = "none"]
    /\ polled' = [polled EXCEPT ![t] = FALSE]
    /\ publishes' = [publishes EXCEPT ![t] = 0]
    /\ UNCHANGED <<ipcDir, fs, nextId, hostVars, auxVars>>

\* send_command("ping") run with _quick_ping's constants and failure value
SendCommandAsPing(t) ==
    SendCommandWith(t, PING_TIMEOUT, PING_INTERVAL, Return(BARE_FAILURE), Return(BARE_FAILURE))

\* one thread running either of the two, and the listener
NextPing == QuickPing("w1") \/ SendCommandAsPing("w1") \/ PingReturned("w1") \/ Host

SpecPing == Init /\ [][NextPing]_vars

---------------------------------------------------------------------------
(* The envelope through json.dump and json.loads, value by value *)

\* A Python value is the sequence of its tokens: a scalar is one token, a list
\* is "[" items "]", a dict is "{" key value ... "}".  The channel model above
\* abbreviates the params of an envelope to one token.
PyStrings == {"'a'", "'e-acute'"}
PyScalars == {"None", "True", "False", "-1", "1.5"} \cup PyStrings
PyLists == {<<"[", "]">>} \cup {<<"[", x, "]">> : x \in PyScalars}
PyFlat == {<<x>> : x \in PyScalars} \cup PyLists
PyDicts == {<<"{", "}">>} \cup {<<"{", "'k'">> \o v \o <<"}">> : v \in PyFlat}

\* the arguments of a tool call: None or a mapping, nested two deep
ParamValues ==
    {<<"None">>} \cup PyDicts \cup {<<"{", "'n'">> \o d \o <<"}">> : d \in PyDicts}
ActionStrings == {"'ping'", "'e-acute'"}

\* mutant: None is written as Python prints it
EncodeTokRepr(x) ==
    CASE x = "True" -> "true"
      [] x = "False" -> "false"
      [] x = "'a'" -> "\"a\""
      [] x = "'k'" -> "\"k\""
      [] x = "'n'" -> "\"n\""
      [] x = "'ping'" -> "\"ping\""
      [] x = "'e-acute'" -> "\"\\u00e9\""
      [] OTHER -> x

\* json.dump of one token: None, True, False and strings change their spelling
\* (ensure_ascii escapes what is not ASCII), numbers and brackets do not
EncodeTok(x) ==
    CASE x = "None" -> "null"
      [] x = "True" -> "true"
      [] x = "False" -> "false"
      [] x = "'a'" -> "\"a\""
      [] x = "'k'" -> "\"k\""
      [] x = "'n'" -> "\"n\""
      [] x = "'ping'" -> "\"ping\""
      [] x = "'e-acute'" -> "\"\\u00e9\""
      [] OTHER -> x

JsonTokens == {"null", "true", "false", "-1", "1.5", "\"a\"", "\"k\"", "\"n\"", "\"ping\"",
               "\"\\u00e9\"", "{", "}", "[", "]"}

\* json.loads of one token
DecodeTok(x) ==
    CASE x = "null" -> "None"
      [] x = "true" -> "True"
      [] x = "false" -> "False"
      [] x = "\"a\"" -> "'a'"
      [] x = "\"k\"" -> "'k'"
      [] x = "\"n\"" -> "'n'"
      [] x = "\"ping\"" -> "'ping'"
      [] x = "\"\\u00e9\"" -> "'e-acute'"
      [] OTHER -> x

EncodeValue(v) == [i \in DOMAIN v |-> EncodeTok(v[i])]
DecodeValue(j) == [i \in DOMAIN j |-> DecodeTok(j[i])]

\* the nesting depth after each token of j; j is one value if it never closes
\* what it did not open and ends with everything closed
RECURSIVE Depth(_, _)
Depth(j, n) ==
    IF n = 0 THEN 0
    ELSE Depth(j, n - 1) + (IF j[n] \in {"{", "["} THEN 1 ELSE IF j[n] \in {"}", "]"} THEN -1 ELSE 0)

IsJsonValue(j) ==
    /\ Len(j) >= 1
    /\ \A i \in DOMAIN j : j[i] \in JsonTokens
    /\ Depth(j, Len(j)) = 0
    /\ \A n \in 1..(Len(j) - 1) : Depth(j, n) > 0 \/ Len(j) = 1

\* cmd = {"id": cmd_id, "action": action, "params": params or {}}
ParamsOrEmpty(params) == IF params \in {<<"None">>, <<"{", "}">>} THEN <<"{", "}">> ELSE params

\* json.dump(cmd, f)
DumpEnvelope(c) ==
    <<"{", "\"id\"", c.id, "\"action\"", EncodeTok(c.action), "\"params\"">>
        \o EncodeValue(c.params) \o <<"}">>

\* json.loads of a command file, as the listener's decoder reads it
LoadEnvelope(text) ==
    IF /\ Len(text) >= 8
       /\ text[1] = "{" /\ text[2] = "\"id\"" /\ text[4] = "\"action\"" /\ text[6] = "\"params\""
       /\ text[Len(text)] = "}"
       /\ text[5] \in JsonTokens
       /\ IsJsonValue(SubSeq(text, 7, Len(text) - 1))
    THEN [ok |-> TRUE, id |-> text[3], action |-> DecodeTok(text[5]),
          params |-> DecodeValue(SubSeq(text, 7, Len(text) - 1))]
    ELSE NoDecoded

InitEnvelope ==
    /\ InitChannel
    /\ ipcDir = "open"
    /\ cfg = AbsentFile
    /\ cfgOp = NoOp
    /\ \E a \in ActionStrings, p \in ParamValues :
          envelope = [stage |-> "args", action |-> a, params |-> p, id |-> "", decoded |-> NoDecoded]

\* send_command(action, params) up to os.replace: the envelope is at the command path
PublishEnvelope ==
    /\ envelope.stage = "args"
    /\ LET cmd_id == "\"" \o Uuid4(nextId) \o "\""
           c == [id |-> cmd_id, action |-> envelope.action, params |-> ParamsOrEmpty(envelope.params)]
       IN  /\ fs' = Put(fs, CMD_FILE, DumpEnvelope(c))
           /\ envelope' = [envelope EXCEPT !.stage = "published", !.id = cmd_id]
    /\ nextId' = nextId + 1
    /\ UNCHANGED <<ipcDir, pc, localVars, hostVars, ghostVars, shown, cancelled, cfg, cfgOp>>

\* a reader decodes command.json
ReadEnvelope ==
    /\ envelope.stage = "published"
    /\ envelope' = [envelope EXCEPT !.stage = "read", !.decoded = LoadEnvelope(fs[CMD_FILE])]
    /\ UNCHANGED <<ipcDir, fs, nextId, pc, localVars, hostVars, ghostVars, shown, cancelled, cfg, cfgOp>>

NextEnvelope == PublishEnvelope \/ ReadEnvelope

SpecEnvelope == InitEnvelope /\ [][NextEnvelope]_vars

---------------------------------------------------------------------------
(* The installer's JSON config files *)

\* A config file is absent, blank (only whitespace), garbage (not JSON) or JSON
\* text; fmt tells json.dumps(config, indent=2) + "\n" from any other layout of
\* the same value.  A value of the top-level object is a nested object (its
\* pairs in kids) or anything else (val: a JSON token).
ValNode(v) == [kind |-> "val", val |-> v, kids |-> <<>>]
ObjNode(kids) == [kind |-> "obj", val |-> "", kids |-> kids]

\* the value argument: Python dicts; the last one has an int key
CfgValues == {"{cmd:a}", "{cmd:b}", "{1:x}"}
\* key_path as the installer passes it
KeyPaths == {<<"reaper">>, <<"mcpServers", "reaper">>}

\* json.dumps of a value: a key that is not a str becomes one
Jsonify(v) == IF v = "{1:x}" THEN "{\"1\":x}" ELSE v

\* a str value: "in" on it is a substring test
IsPyStr(v) == v \in {"'x'", "'y'"}

\* key in d
Has(kids, k) == \E i \in DOMAIN kids : kids[i][1] = k
\* d[key]
Lookup(kids, k) ==
    kids[CHOOSE i \in DOMAIN kids : kids[i][1] = k /\ \A j \in DOMAIN kids : kids[j][1] = k => i <= j][2]

\* mutant: an assignment adds a pair and leaves the old one
SetKeyAppend(kids, k, x) == Append(kids, <<k, x>>)

\* d[key] = x: in place if the key is there, at the end if not
SetKey(kids, k, x) ==
    IF Has(kids, k)
    THEN [i \in DOMAIN kids |-> IF kids[i][1] = k THEN <<k, x>> ELSE kids[i]]
    ELSE Append(kids, <<k, x>>)

\* del d[key]
DelKey(kids, k) == SelectSeq(kids, LAMBDA pr : pr[1] # k)

JsonifyLeaves(kids) == [i \in DOMAIN kids |-> <<kids[i][1], Jsonify(kids[i][2])>>]
JsonifyNode(n) == [kind |-> n.kind, val |-> Jsonify(n.val), kids |-> JsonifyLeaves(n.kids)]

\* path.write_text(json.dumps(config, indent=2) + "\n")
CfgDumps(top) ==
    [state |-> "json", fmt |-> "indent2",
     top |-> [kind |-> top.kind,
              kids |-> [i \in DOMAIN top.kids |-> <<top.kids[i][1], JsonifyNode(top.kids[i][2])>>]]]

CfgResult(file, r) == [file |-> file, ret |-> r]

\* merge_json_config(path, key_path, value): the file afterwards and what the
\* call returned ("True", "False") or raised ("TypeError")
MergeConfig(file, kp, value) ==
    IF file.state = "garbage" THEN CfgResult(file, "False")
    ELSE LET config == IF file.state = "json" THEN file.top ELSE EmptyTop
         IN  IF config.kind # "obj" THEN CfgResult(file, "TypeError")
             ELSE IF Len(kp) = 1
             THEN IF Has(config.kids, kp[1]) /\ Lookup(config.kids, kp[1]) = ValNode(value)
                  THEN CfgResult(file, "False")
                  ELSE CfgResult(CfgDumps([config EXCEPT !.kids = SetKey(@, kp[1], ValNode(value))]), "True")
             ELSE LET current == IF Has(config.kids, kp[1]) THEN Lookup(config.kids, kp[1])
                                 ELSE ObjNode(<<>>)
                  IN  IF current.kind # "obj" THEN CfgResult(file, "TypeError")
                      ELSE IF Has(current.kids, kp[2]) /\ Lookup(current.kids, kp[2]) = value
                      THEN CfgResult(file, "False")
                      ELSE CfgResult(
                              CfgDumps([config EXCEPT !.kids =
                                  SetKey(@, kp[1], ObjNode(SetKey(current.kids, kp[2], value)))]),
                              "True")

\* remove_json_config_key(path, key_path)
RemoveConfig(file, kp) ==
    IF file.state # "json" THEN CfgResult(file, "False")
    ELSE LET config == file.top
         IN  IF config.kind # "obj" THEN CfgResult(file, "False")
             ELSE IF ~Has(config.kids, kp[1]) THEN CfgResult(file, "False")
             ELSE IF Len(kp) = 1
             THEN CfgResult(CfgDumps([config EXCEPT !.kids = DelKey(@, kp[1])]), "True")
             ELSE LET current == Lookup(config.kids, kp[1])
                  IN  IF current.kind # "obj"
                      THEN CfgResult(file, IF IsPyStr(current.val) THEN "False" ELSE "TypeError")
                      ELSE IF ~Has(current.kids, kp[2]) THEN CfgResult(file, "False")
                      ELSE CfgResult(
                              CfgDumps([config EXCEPT !.kids =
                                  SetKey(@, kp[1], ObjNode(DelKey(current.kids, kp[2])))]),
                              "True")

\* the key paths of a config file
KeySet(file) ==
    IF file.state # "json" \/ file.top.kind # "obj" THEN {}
    ELSE LET kids == file.top.kids
         IN  {<<kids[i][1]>> : i \in DOMAIN kids}
                \cup UNION {{<<kids[i][1], kids[i][2].kids[j][1]>> : j \in DOMAIN kids[i][2].kids} :
                              i \in DOMAIN kids}

\* the config files the installer may find
OtherPairs == {<<>>, << <<"other", ValNode("'y'")>> >>}
ReaperPairs == {<<>>, << <<"reaper", ValNode("{cmd:a}")>> >>, << <<"reaper", ValNode("null")>> >>}
ServerPairs ==
    {<<>>} \cup
    {<< <<"mcpServers", n>> >> :
        n \in {ObjNode(<<>>), ObjNode(<< <<"reaper", "{cmd:a}">> >>), ObjNode(<< <<"other", "'y'">> >>),
               ValNode("null"), ValNode("'x'")}}
InitialTops ==
    {[kind |-> "list", kids |-> <<>>]}
        \cup {[kind |-> "obj", kids |-> o \o r \o m] : o \in OtherPairs, r \in ReaperPairs, m \in ServerPairs}
InitialFiles ==
    {AbsentFile,
     [state |-> "blank", fmt |-> "none", top |-> EmptyTop],
     [state |-> "garbage", fmt |-> "none", top |-> EmptyTop]}
        \cup {[state |-> "json", fmt |-> f, top |-> t] : f \in {"indent2", "compact"}, t \in InitialTops}

InitConfig ==
    /\ InitChannel
    /\ envelope = NoEnvelope
    /\ cfg \in InitialFiles
    /\ cfgOp = NoOp

channelVars == <<ipcDir, fs, nextId, pc, localVars, hostVars, ghostVars, shown, cancelled, envelope>>

\* the installer merges value at key_path
Merge(kp, value) ==
    /\ cfg' = MergeConfig(cfg, kp, value).file
    /\ cfgOp' = [op |-> "merge", kp |-> kp, value |-> value, ret |-> MergeConfig(cfg, kp, value).ret,
                 paired |-> FALSE, base |-> cfg]
    /\ UNCHANGED channelVars

\* the uninstaller removes key_path; paired: the call before was the merge at
\* the same key_path, and base is the file as it was before that merge
RemoveKey(kp) ==
    /\ cfg' = RemoveConfig(cfg, kp).file
    /\ cfgOp' = [op |-> "remove", kp |-> kp, value |-> "", ret |-> RemoveConfig(cfg, kp).ret,
                 paired |-> (cfgOp.op = "merge" /\ cfgOp.kp = kp),
                 base |-> IF cfgOp.op = "merge" /\ cfgOp.kp = kp THEN cfgOp.base ELSE AbsentFile]
    /\ UNCHANGED channelVars

NextConfig ==
    \/ \E kp \in KeyPaths, value \in CfgValues : Merge(kp, value)
    \/ \E kp \in KeyPaths : RemoveKey(kp)

SpecConfig == InitConfig /\ [][NextConfig]_vars

---------------------------------------------------------------------------
(* Properties *)

\* the timeout failure of t's call
TimedOut(t) == ret[t] = Return(TimeoutFailure(cmd[t].id))

\* the envelopes the calls so far can have published
Envelopes ==
    {[id |-> ToString(n), action |-> a, params |-> ParamsOf(p)] :
        n \in 1..(nextId - 1), a \in Actions, p \in Arguments}

\* C1: whatever is at the command path is the whole envelope of some call, and
\* the listener has never read a command file that was not one: a truncated
\* envelope is never observable at command.json.
C1_AtomicPublish ==
    /\ ~hostBad
    /\ Exists(CMD_FILE) => \E c \in Envelopes : fs[CMD_FILE] = CmdText(c)

\* the listener has read the first command, the second call's envelope is in its
\* temp file, and command.json still holds the whole first envelope
C1_Witness ==
    /\ hostCmd = "1"
    /\ pc["w1"] = "replace"
    /\ cmd["w1"].id = "2"
    /\ fs[tmp_path["w1"]] = CmdText(cmd["w1"])
    /\ Loads(fs[CMD_FILE]).kind = "dict"
    /\ Loads(fs[CMD_FILE]).val["id"] = "1"

\* C2: every value send_command returns (matched response, timeout failure,
\* publish failure) carries the id drawn for that call.
C2_Correlation ==
    \A t \in Workers :
        ret[t].kind = "return" =>
            /\ "id" \in DOMAIN ret[t].val
            /\ ret[t].val["id"] = cmd[t].id

\* a call returns its own response although another id's response was at the
\* response path while it polled
C2_Witness ==
    \E t \in Workers :
        /\ pc[t] = "done"
        /\ appeared[t] = "stale"
        /\ ret[t] = Return(ObjOf(SuccessText(cmd[t].id)))

\* C3 as stated: the delete step of every call leaves no response file behind.
C3_StaleRemoved ==
    [][\A t \in Workers :
            (pc[t] = "unlink0" /\ pc'[t] = "mkstemp") => RSP_FILE \notin DOMAIN fs']_vars

\* C3 as amended: until a call has published, its envelope is not at the command
\* path (the delete of the old response is attempted first), and a response file
\* at the response path does not carry the call's id, so whether or not the
\* delete succeeded it cannot be returned as the call's answer.
C3_DeleteBeforePublish ==
    \A t \in Workers :
        pc[t] \in {"unlink0", "mkstemp", "replace"} =>
            /\ ~(Exists(CMD_FILE) /\ fs[CMD_FILE] = CmdText(cmd[t]))
            /\ ~(Exists(RSP_FILE) /\ IsAnswerTo(fs[RSP_FILE], cmd[t].id))

\* the second call has made its delete step and the first call's response is
\* at the response path
C3_Witness ==
    /\ pc["w1"] = "mkstemp"
    /\ cmd["w1"].id = "2"
    /\ Exists(RSP_FILE)
    /\ fs[RSP_FILE] = SuccessText("1")

\* C4: a call whose matching response the listener wrote, to an empty response
\* path and within the window, and which a pass of its loop read before the
\* deadline, returns exactly that response and not the timeout failure.
C4_Delivered ==
    \A t \in Workers :
        (pc[t] = "done" /\ answered[t].how = "clean" /\ readMatch[t]) =>
            ret[t] = Return(ObjOf(answered[t].text))

\* C5: a call in whose window a response with another id appeared and the
\* matching response was written later returns the matching response: the stale
\* one does not make it lose the matching one.  Stated for the call that timed
\* out without any of its reads returning the matching response: that response
\* is then still at the response path (no pass has taken it).
C5_StaleThenCorrect ==
    \A t \in Workers :
        (pc[t] = "done" /\ TimedOut(t) /\ ~readMatch[t]
            /\ appeared[t] = "stale" /\ answered[t].how # "no") =>
                (Exists(RSP_FILE) /\ fs[RSP_FILE] = answered[t].text)

\* no response file was at the response path during t's call
Quiet(t) == appeared[t] = "none" /\ answered[t].how = "no" /\ ~readMatch[t]

\* C6 as stated: with no response file, the timeout failure is returned no later
\* than TIMEOUT + POLL_INTERVAL after the poll loop was entered.
C6_TimeoutBound ==
    \A t \in Workers :
        (TimedOut(t) /\ Quiet(t)) => elapsed[t] <= TIMEOUT + POLL_INTERVAL

\* C6 as amended: the timeout failure is returned before TIMEOUT + POLL_INTERVAL
\* plus the longest a time.sleep oversleeps.
C6_TimeoutBoundOversleep ==
    \A t \in Workers :
        (TimedOut(t) /\ Quiet(t)) => elapsed[t] < TIMEOUT + POLL_INTERVAL + MaxOversleep

\* a call with no response file timed out as late as it can
C6_Witness ==
    \E t \in Workers :
        /\ pc[t] = "done"
        /\ TimedOut(t)
        /\ Quiet(t)
        /\ elapsed[t] = TIMEOUT + POLL_INTERVAL + MaxOversleep - 1

\* C7: the timeout failure is returned only when TIMEOUT has elapsed and no
\* read of the call returned a well-formed response carrying the call's id.
C7_TimeoutOnlyUnanswered ==
    \A t \in Workers :
        TimedOut(t) => (elapsed[t] >= TIMEOUT /\ ~readMatch[t])

\* C8: no exception propagates out of send_command.
C8_NoUncaught == \A t \in Workers : ret[t].kind # "raise"

\* C9: a failure of mkstemp, of the write or of os.replace returns the publish
\* failure at once: the call made no deadline check, slept no time and made one
\* publish attempt; the publish steps end in nothing else but the next step.
C9_PublishFailure ==
    [][\A t \in Workers :
            (pc[t] \in {"mkstemp", "replace"} /\ pc'[t] # pc[t]) =>
                \/ /\ pc'[t] = (IF pc[t] = "mkstemp" THEN "replace" ELSE "poll")
                   /\ ret'[t] = NoRet
                \/ /\ pc'[t] = "done"
                   /\ ret'[t] = Return(PublishFailure(cmd[t].id))
                   /\ ~polled'[t]
                   /\ elapsed'[t] = 0
                   /\ publishes'[t] = 1]_vars

\* os.replace failed: the call returned the publish failure, its envelope is
\* still in its temp file
C9_Witness ==
    \E t \in Workers :
        /\ pc[t] = "done"
        /\ ret[t] = Return(PublishFailure(cmd[t].id))
        /\ Exists(tmp_path[t])
        /\ fs[tmp_path[t]] = CmdText(cmd[t])

\* C10: a pass of the loop that read anything but a well-formed response with
\* the call's id neither returns nor fails: the call goes on to its sleep.
C10_MalformedIgnored ==
    [][\A t \in Workers :
            (pc[t] = "unlink" /\ pc'[t] # "unlink" /\ ~IsAnswerTo(content[t], cmd[t].id)) =>
                (pc'[t] = "sleep" /\ ret'[t] = NoRet)]_vars

InFlight(t) == pc[t] \in {"unlink0", "mkstemp", "replace", "poll", "read", "unlink", "sleep"}

\* C12: at most one send_command is in flight at any time.
C12_SingleFlight == Cardinality({t \in Workers : InFlight(t)}) <= 1

\* C13: a tool call can start its send_command whatever the other calls are
\* doing: a call blocked in its poll loop does not keep another from starting.
C13_Independent ==
    \A t \in Workers :
        (pc[t] = "idle" /\ nextId <= MaxCalls) => ENABLED Call(t)

\* one call sleeps in its poll loop while another, started later, polls too
C13_Witness ==
    \E t, u \in Workers :
        /\ pc[t] = "sleep"
        /\ cmd[t].id = "1"
        /\ pc[u] = "poll"
        /\ cmd[u].id = "2"

\* the call has published its command
Published(t) ==
    \/ pc[t] \in {"poll", "read", "unlink", "sleep"}
    \/ pc[t] \in {"done", "reply"} /\ polled[t]

\* C14: a call makes at most one publish attempt; once it has published, no
\* step (after a timeout, a malformed or a stale response) takes it back to
\* the publish steps or changes command.json, and what it returned stays
\* what it returned until call_tool has it.
C14_NoRetry ==
    /\ [](\A t \in Workers : publishes[t] <= 1)
    /\ [][\A t \in Workers :
            Published(t) =>
                /\ pc'[t] \notin {"unlink0", "mkstemp", "replace"}
                /\ Exists(CMD_FILE) /\ CMD_FILE \in DOMAIN fs' /\ fs'[CMD_FILE] = fs[CMD_FILE]
                /\ pc'[t] # "idle" => publishes'[t] = publishes[t]
                /\ pc[t] = "done" => ret'[t] = ret[t]]_vars

\* a call that saw a response with another id and timed out published once
C14_Witness ==
    \E t \in Workers :
        /\ pc[t] = "done"
        /\ TimedOut(t)
        /\ appeared[t] = "stale"
        /\ publishes[t] = 1
        /\ fs[CMD_FILE] = CmdText(cmd[t])

\* C15: a call that entered its poll loop ends with one of the outcomes of
\* send_command, the matching response or the timeout failure, whatever the
\* listener wrote meanwhile.
C15_OneOutcome ==
    \A t \in Workers :
        (pc[t] = "done" /\ polled[t]) =>
            \/ TimedOut(t)
            \/ /\ ret[t].kind = "return"
               /\ readMatch[t]
               /\ Get(ret[t].val, "id") = cmd[t].id

\* every call that is in flight comes to its end, whatever the listener does
C15_Terminates == \A t \in Workers : InFlight(t) ~> (pc[t] = "done")

\* C16: the command file decodes to an envelope whose id is the call's id and
\* whose action and params equal the values passed in; params None gives {}.
C16_RoundTrip ==
    envelope.stage = "read" =>
        /\ envelope.decoded.ok
        /\ envelope.decoded.id = envelope.id
        /\ envelope.decoded.action = envelope.action
        /\ envelope.decoded.params =
              (IF envelope.params = <<"None">> THEN <<"{", "}">> ELSE envelope.params)

\* a nested mapping holding a list with None in it went through and came back
C16_Witness ==
    /\ envelope.stage = "read"
    /\ envelope.params = <<"{", "'n'", "{", "'k'", "[", "None", "]", "}", "}">>
    /\ envelope.decoded.params = envelope.params

C18_RemoveRestores ==
    (cfgOp.op = "remove" /\ cfgOp.paired) => KeySet(cfg) = KeySet(cfgOp.base)

\* C19: when ensure_ipc_dir returns the directory exists, private if chmod
\* succeeded; on a directory that exists already it does not fail, leaves the
\* files in it as they are and the directory as it is (or private), and
\* doing it once more changes nothing.
C19_EnsureIdempotent ==
    [][\A t \in Workers :
            (pc[t] = "idle" /\ pc'[t] # "idle") =>
                /\ ipcDir # "absent" => pc'[t] = "unlink0"
                /\ pc'[t] = "unlink0" =>
                      /\ fs' = fs
                      /\ ipcDir' \in {EnsureIpcDir(ipcDir, ok) : ok \in BOOLEAN}
                      /\ ipcDir' # "absent"
                      /\ EnsureIpcDir(ipcDir, TRUE) = "private"
                      /\ ipcDir # "absent" => ipcDir' \in {ipcDir, "private"}
                      /\ \A ok \in BOOLEAN :
                            EnsureIpcDir(EnsureIpcDir(ipcDir, ok), ok) = EnsureIpcDir(ipcDir, ok)]_vars

\* the second call has gone through ensure_ipc_dir: the directory is private
\* and the first call's command file is still in it
C19_Witness ==
    /\ pc["w1"] = "unlink0"
    /\ cmd["w1"].id = "2"
    /\ ipcDir = "private"
    /\ Exists(CMD_FILE)
    /\ fs[CMD_FILE] = CmdText([id |-> "1", action |-> "ping", params |-> "{}"])

\* C20: a call whose task was cancelled before its deadline stops polling: it
\* does not go on to the end of its TIMEOUT and return the timeout failure.
C20_Cancellable ==
    \A t \in Workers : cancelled[t] => ~(pc[t] = "done" /\ TimedOut(t))

\* C21 as stated: a pass that has read a response carrying another id leaves
\* the response file in place, unchanged, for the next pass.
C21_StaleLeft ==
    [][\A t \in Workers :
            (pc[t] = "unlink" /\ pc'[t] # "unlink" /\ IsStaleFor(content[t], cmd[t].id)) =>
                /\ RSP_FILE \in DOMAIN fs'
                /\ fs'[RSP_FILE] = content[t]]_vars

\* C21: a pass that has read a response carrying another id does not return
\* it and goes on to the sleep; the response path is unlinked in that same
\* pass, before the id is looked at, and the file stays (with every other
\* file as it was) only when the unlink failed.
C21_StaleDropped ==
    [][\A t \in Workers :
            (pc[t] = "unlink" /\ pc'[t] # "unlink" /\ IsStaleFor(content[t], cmd[t].id)) =>
                /\ pc'[t] = "sleep"
                /\ ret'[t] = NoRet
                /\ RSP_FILE \notin DOMAIN fs' \/ fs' = fs
                /\ \A q \in DOMAIN fs' : fs'[q] = fs[q]]_vars

\* the call sleeps after a pass that read and deleted a stale response
C21_Witness ==
    /\ pc["w1"] = "sleep"
    /\ polled["w1"]
    /\ appeared["w1"] = "stale"
    /\ ~readMatch["w1"]
    /\ ~Exists(RSP_FILE)

\* C22 as stated: a pass that has read the response file has deleted it by
\* the time it goes on, so the response path is empty after every such pass.
C22_Consumed ==
    [][\A t \in Workers :
            (pc[t] = "unlink" /\ pc'[t] # "unlink") => RSP_FILE \notin DOMAIN fs']_vars

\* C22: a pass that has read the response file goes to the unlink before
\* anything else, whatever the content; after the unlink the pass sleeps or
\* returns, never reads again. The response path is empty then, unless the
\* unlink failed: the file and every other file stay as they were, nothing is
\* returned and the pass sleeps. A call that returns from the pass leaves the
\* response path empty.
C22_ConsumeAttempted ==
    [][\A t \in Workers :
            /\ (pc[t] = "read" /\ pc'[t] # "read") =>
                  /\ pc'[t] \in {"unlink", "sleep"}
                  /\ fs' = fs
                  /\ pc'[t] = "unlink" => content'[t] = fs[RSP_FILE]
                  /\ pc'[t] = "sleep" => content'[t] = NoText
            /\ (pc[t] = "unlink" /\ pc'[t] # "unlink") =>
                  /\ pc'[t] \in {"sleep", "done"}
                  /\ content'[t] = NoText
                  /\ \/ RSP_FILE \notin DOMAIN fs'
                     \/ fs' = fs /\ pc'[t] = "sleep" /\ ret'[t] = NoRet
                  /\ pc'[t] = "done" => RSP_FILE \notin DOMAIN fs']_vars

\* the call sleeps after a pass that read and deleted a file that was no
\* response at all
C22_Witness ==
    /\ pc["w1"] = "sleep"
    /\ polled["w1"]
    /\ appeared["w1"] = "junk"
    /\ ~Exists(RSP_FILE)

\* C23: the client never deletes or invalidates the command file. While a
\* call that published polls, and after it returned (a matched response, a
\* timeout or anything else), command.json holds that call's whole envelope;
\* the file is never removed, and its content changes only by the successful
\* os.replace of a later call, to that call's envelope. The step that runs
\* into the deadline touches no file at all.
C23_CommandKept ==
    /\ [](\A t \in Workers :
            Published(t) => Exists(CMD_FILE) /\ fs[CMD_FILE] = CmdText(cmd[t]))
    /\ [][/\ Exists(CMD_FILE) =>
                /\ CMD_FILE \in DOMAIN fs'
                /\ \/ fs'[CMD_FILE] = fs[CMD_FILE]
                   \/ \E t \in Workers :
                         /\ pc[t] = "replace"
                         /\ pc'[t] = "poll"
                         /\ fs'[CMD_FILE] = CmdText(cmd[t])
           /\ \A t \in Workers :
                (pc[t] # "done" /\ pc'[t] = "done" /\ ret'[t] = Return(TimeoutFailure(cmd[t].id)))
                    => fs' = fs]_vars

\* the first call is over and its envelope is still in command.json, after
\* the listener has read it
C23_Witness ==
    /\ pc["w1"] = "idle"
    /\ nextId = 2
    /\ hostCmd = "1"
    /\ Exists(CMD_FILE)
    /\ fs[CMD_FILE] = CmdText([id |-> "1", action |-> "ping", params |-> "{}"])

\* C24: a chmod of the channel directory that fails does not fail the call.
\* An OSError comes out of ensure_ipc_dir only when the directory could not
\* be made, never with the directory there; and a call under way takes each
\* of its steps (delete the old response, publish, poll) in a directory left
\* open to others just as in a private one: which step is possible depends
\* on where the call is, not on the directory's mode.
C24_ChmodNonFatal ==
    \A t \in Workers :
        /\ ret[t] = Raise("OSError") => ipcDir = "absent"
        /\ InFlight(t) => ipcDir \in {"open", "private"}
        /\ ENABLED DeleteStale(t) <=> pc[t] = "unlink0"
        /\ ENABLED WriteTmp(t) <=> pc[t] = "mkstemp"
        /\ ENABLED ReplaceCmd(t) <=> pc[t] = "replace"
        /\ ENABLED Poll(t) <=> pc[t] = "poll"
        /\ ENABLED ReadRsp(t) <=> pc[t] = "read"
        /\ ENABLED UnlinkRsp(t) <=> pc[t] = "unlink"
        /\ ENABLED Sleep(t) <=> pc[t] = "sleep"

\* the chmod failed, the directory is open to others, and the call has
\* deleted, published, polled and returned the listener's answer
C24_Witness ==
    /\ ipcDir = "open"
    /\ pc["w1"] = "done"
    /\ readMatch["w1"]
    /\ ret["w1"] = Return(ObjOf(SuccessText(cmd["w1"].id)))

\* C25: with calls running together, a response the listener wrote for a call
\* under way (it carries that call's id) is not removed by a step of another
\* call: neither by its unlink before the publish nor by the unlink of its
\* poll loop.
C25_NotStolen ==
    [][\A t, u \in Workers :
            (/\ t # u
             /\ InFlight(t)
             /\ Exists(RSP_FILE)
             /\ IsAnswerTo(fs[RSP_FILE], cmd[t].id)
             /\ pc[u] \in {"unlink0", "unlink"}
             /\ pc'[u] # pc[u])
                => RSP_FILE \in DOMAIN fs']_vars

\* C26: a response file that has gone between the existence check and the
\* read (another call removed it) does not fail the call: the pass returns
\* nothing, raises nothing, changes no file and goes to its sleep; the sleep
\* takes at least POLL_INTERVAL and ends in the next existence check, or in
\* the timeout failure once the deadline has passed.
C26_VanishedAbsorbed ==
    [][\A t \in Workers :
            /\ (pc[t] = "read" /\ ~Exists(RSP_FILE) /\ pc'[t] # "read") =>
                  /\ pc'[t] = "sleep"
                  /\ ret'[t] = NoRet
                  /\ content'[t] = NoText
                  /\ elapsed'[t] = elapsed[t]
                  /\ fs' = fs
            /\ (pc[t] = "sleep" /\ pc'[t] # "sleep") =>
                  /\ elapsed'[t] >= elapsed[t] + POLL_INTERVAL
                  /\ pc'[t] \in {"read", "done"}
                  /\ pc'[t] = "read" => elapsed'[t] < TIMEOUT /\ Exists(RSP_FILE)
                  /\ pc'[t] = "done" =>
                        /\ elapsed'[t] >= TIMEOUT
                        /\ ret'[t] = Return(TimeoutFailure(cmd[t].id))]_vars

\* a call is about to read a response file that another call has removed
\* since the existence check
C26_Witness ==
    \E t, u \in Workers :
        /\ t # u
        /\ pc[t] = "read"
        /\ ~Exists(RSP_FILE)
        /\ InFlight(u)
        /\ ENABLED ReadRsp(t)

\* C27: a publish that fails leaves command.json as it was. No step of a call
\* before its successful os.replace changes the command file (a failed
\* mkstemp, write or replace included), so when the publish failure is
\* returned the command file does not hold this call's envelope and the
\* listener has not read a command with this call's id.
C27_FailedPublishKeeps ==
    /\ [][\A t \in Workers :
            (pc[t] \in {"unlink0", "mkstemp", "replace"} /\ pc'[t] \notin {pc[t], "poll"}) =>
                /\ CMD_FILE \in DOMAIN fs' <=> CMD_FILE \in DOMAIN fs
                /\ Exists(CMD_FILE) => fs'[CMD_FILE] = fs[CMD_FILE]]_vars
    /\ [](\A t \in Workers :
            ret[t] = Return(PublishFailure(cmd[t].id)) =>
                /\ hostCmd # cmd[t].id
                /\ Exists(CMD_FILE) =>
                      /\ fs[CMD_FILE] # CmdText(cmd[t])
                      /\ IsObjText(fs[CMD_FILE]) => ObjOf(fs[CMD_FILE])["id"] # cmd[t].id)

\* the second call's os.replace failed: command.json still holds the first
\* call's envelope, and the second call's is in its temp file
C27_Witness ==
    /\ pc["w1"] = "done"
    /\ cmd["w1"].id = "2"
    /\ ret["w1"] = Return(PublishFailure("2"))
    /\ Exists(tmp_path["w1"])
    /\ fs[tmp_path["w1"]] = CmdText(cmd["w1"])
    /\ Exists(CMD_FILE)
    /\ fs[CMD_FILE] = CmdText([id |-> "1", action |-> "ping", params |-> "{}"])

\* C28: when send_command has returned, on any path, the temp file the call
\* made is no longer in the channel directory.
C28_NoResidue ==
    \A t \in Workers : pc[t] = "done" => ~Exists(tmp_path[t])

\* C29: _quick_ping is send_command("ping") with a 2.0 s deadline, a 0.05 s
\* sleep and the bare {"success": False} for both failure values. From every
\* state either of them can be in, each step of the one is the same step of
\* the other, place by place: ensure the directory and build the envelope,
\* unlink the old response, write the temp file, os.replace, the existence
\* check, the read, the unlink and the parse with the id match, the sleep.
\* So whatever the listener does, the one returns a matched response exactly
\* when the other does.
C29_PingRefines ==
    [][\A t \in Workers :
            /\ PingCall(t) <=> Call(t)
            /\ PingDeleteStale(t) <=> DeleteStale(t)
            /\ PingWriteTmp(t) <=> WriteTmpWith(t, Return(BARE_FAILURE))
            /\ PingReplaceCmd(t) <=> ReplaceCmdWith(t, Return(BARE_FAILURE))
            /\ PingPoll(t) <=> PollWith(t, PING_TIMEOUT, Return(BARE_FAILURE))
            /\ PingReadRsp(t) <=> ReadRsp(t)
            /\ PingUnlinkRsp(t) <=> UnlinkRsp(t)
            /\ PingSleep(t) <=> SleepWith(t, PING_INTERVAL, PING_TIMEOUT, Return(BARE_FAILURE))
            /\ QuickPing(t) <=> SendCommandAsPing(t)]_vars

\* _quick_ping has slept, then read the listener's answer to its ping and
\* returned it
C29_Witness ==
    /\ pc["w1"] = "done"
    /\ cmd["w1"].action = "ping"
    /\ elapsed["w1"] >= PING_INTERVAL
    /\ elapsed["w1"] < PING_TIMEOUT
    /\ ret["w1"] = Return(ObjOf(SuccessText(cmd["w1"].id)))

====
